---- MODULE Spec2Model ----
(***************************************************************************)
(* NostrService (src/src/app/services/nostr.service.ts): the relay client  *)
(* of zapstack.  Four specifications share this module:                    *)
(*   Spec / FairSpec  the connection lifecycle and the calls outstanding   *)
(*                    on relay objects (connect, publish, list/get,        *)
(*                    waitForZap);                                         *)
(*   VoteSpec         getVoteResult over a sequence returned by the relay; *)
(*   ZapSpec          getZaps over a sequence returned by the relay.       *)
(*   ThreadSpec       createOrUpdateQuestion and listQuestions against a   *)
(*                    relay that stores the events it accepts.             *)
(* The relay (nostr-tools Relay + the remote server) is the environment:   *)
(* its steps are the events the service registers handlers for.            *)
(***************************************************************************)
EXTENDS Integers, Sequences, FiniteSets, TLC

\* ---- bounds ----
MaxOps == 2        \* calls made on the service after its construction
MaxLate == 1       \* receipts counted on a subscription after its wait resolved
MaxVotes == 3      \* kind-7 events returned to getVoteResult
MaxZaps == 3       \* kind-9735 events returned to getZaps

\* ---- input domains ----
DefaultUrl == "wss://relay.damus.io"
Urls == {"urlA", "urlB"}
EventIds == {"e1", "e2"}
Reasons == {"blocked", "invalid"}
Invoices == {"lnbc1", "lnbc2"}
TargetIds == {"e1"}       \* the event a deletion or a zap request is about
Receivers == {"npubA"}
ZapAmounts == {1000, 21000}
Digits == <<"0", "1", "2", "3", "4", "5", "6", "7", "8", "9">>

VARIABLES
    relays,        \* the Relay objects made by relayInit, in creation order
    relay,         \* this.relay: index into relays
    conns,         \* the connect(url) calls and where each is suspended
    connected,     \* last value of the BehaviorSubject `connected`
    loggedInUser,  \* values emitted on the ReplaySubject `loggedInUser`
    calls,         \* publish / list / get / waitForZap calls
    votes,         \* events relay.list returned to getVoteResult
    voteResult,    \* outcome of getVoteResult
    zaps,          \* events relay.list returned to getZaps
    zapResult,     \* outcome of getZaps
    store,         \* events the relay holds
    created,       \* createOrUpdateQuestion calls
    questions      \* outcomes of the listQuestions calls, in call order

netVars == <<relays, relay, conns, connected, loggedInUser, calls>>
aggVars == <<votes, voteResult, zaps, zapResult>>
threadVars == <<store, created, questions>>
vars == <<relays, relay, conns, connected, loggedInUser, calls,
          votes, voteResult, zaps, zapResult, store, created, questions>>

\* ---- helpers ----
\* calls made on the service so far: connectRelay, publish, list/get, waitForZap
Ops == (Len(conns) - 1) + Len(calls)

\* relay objects that can exist: the constructor's and one per connectRelay
MaxRelays == MaxOps + 1

Undefined == "<undefined>"

\* JavaScript truthiness of a string-or-undefined value
Truthy(s) == s # Undefined /\ s # ""

Min(S) == CHOOSE x \in S : \A y \in S : x <= y

\* getTag(tags, tagName): second element of the first tag named tagName
getTag(tags, tagName) ==
    LET hits == {i \in 1..Len(tags) : Len(tags[i]) >= 1 /\ tags[i][1] = tagName}
    IN  IF hits = {} THEN Undefined
        ELSE LET tag == tags[Min(hits)]
             IN  IF Len(tag) >= 2 THEN tag[2] ELSE Undefined

\* a relay object holds a socket that is being opened or is open
Live(r) == relays[r].status \in {"connecting", "open"}

LiveRelays == {r \in 1..Len(relays) : Live(r)}

\* relay.close(): a live socket starts closing; otherwise nothing to do
RelayClose(rs, r) ==
    IF rs[r].status \in {"connecting", "open"}
    THEN [rs EXCEPT ![r].status = "closing"]
    ELSE rs

\* settle the connect() promise of the call that owns relay r
SettleConnect(cs, r, outcome) ==
    [i \in 1..Len(cs) |->
        IF cs[i].new = r /\ cs[i].pc = "awaitConnect"
        THEN [cs[i] EXCEPT !.pc = outcome]
        ELSE cs[i]]

\* ---- initial state: the constructor has run connectRelay(DefaultUrl) ----
\* this.relay was undefined, so connect ran synchronously up to
\* `await this.relay.connect()`.
NetInit ==
    /\ relays = << [url |-> DefaultUrl, status |-> "connecting",
                    sq |-> "none", sqRelay |-> 0] >>
    /\ relay = 1
    /\ conns = << [url |-> DefaultUrl, pc |-> "awaitConnect", old |-> 0, new |-> 1] >>
    /\ connected = FALSE
    /\ loggedInUser = << >>
    /\ calls = << >>

AggIdle ==
    /\ votes = << >>
    /\ voteResult = [done |-> FALSE, value |-> 0]
    /\ zaps = << >>
    /\ zapResult = [status |-> "pending", value |-> 0]

\* ---- question events ----
ZAPSTACK_TAG == "zapstack"

\* texts are sequences of characters
KeyName == <<"n", "a", "m", "e">>
KeyAbout == <<"a", "b", "o", "u", "t">>
KeyPicture == <<"p", "i", "c", "t", "u", "r", "e">>
UndefinedText == <<Undefined>>

\* the id of an event is a hash of its serialisation: equal exactly when
\* the serialised fields are equal
EventId(pubkey, kind, created_at, tags, content) ==
    <<pubkey, kind, created_at, tags, content>>

finishEvent(event, pubkey) ==
    [id |-> EventId(pubkey, event.kind, event.created_at, event.tags, event.content),
     pubkey |-> pubkey, kind |-> event.kind, created_at |-> event.created_at,
     tags |-> event.tags, content |-> event.content]

\* events of other clients on the relay: a zapstack question, and a kind-40
\* channel of another application whose content is not JSON
ForeignQuestion ==
    finishEvent([kind |-> 40, created_at |-> 1,
                 tags |-> << <<"t", ZAPSTACK_TAG>>, <<"subject", <<"F">> >> >>,
                 content |-> <<"{", "\"">> \o KeyName \o <<"\"", ":", "\"", "F", "\"", ",", "\"">>
                             \o KeyAbout \o <<"\"", ":", "\"", "f", "\"", "}">>],
                "other")

ForeignChannel ==
    finishEvent([kind |-> 40, created_at |-> 1,
                 tags |-> << <<"t", "chat">>, <<"subject", <<"c">> >> >>,
                 content |-> <<"h", "i">>],
                "other")

ThreadIdle ==
    /\ store = {ForeignQuestion, ForeignChannel}
    /\ created = << >>
    /\ questions = << >>

Init == NetInit /\ AggIdle /\ ThreadIdle

\* ---- connect ----
\* connectRelay(url) up to its first suspension: this.relay is set, so
\* close() is called on it and the call awaits the result.
connectRelay(url) ==
    /\ Ops < MaxOps
    /\ relays' = RelayClose(relays, relay)
    /\ conns' = Append(conns, [url |-> url, pc |-> "awaitClose", old |-> relay, new |-> 0])
    /\ UNCHANGED <<relay, connected, loggedInUser, calls>>
    /\ UNCHANGED aggVars
    /\ UNCHANGED threadVars

\* the socket of a relay being closed has closed; the 'disconnect' handler
\* runs or not, depending on whether close() dropped the listeners.
RelayClosed(r, notify) ==
    /\ r \in 1..Len(relays)
    /\ relays[r].status = "closing"
    /\ relays' = [relays EXCEPT ![r].status = "closed"]
    /\ conns' = SettleConnect(conns, r, "failed")
    /\ connected' = IF notify THEN FALSE ELSE connected
    /\ UNCHANGED <<relay, loggedInUser, calls>>
    /\ UNCHANGED aggVars
    /\ UNCHANGED threadVars

\* continuation of connect after `await this.relay.close()`; calls that
\* wait for the same close resume in the order they were made
connect(i) ==
    /\ i \in 1..Len(conns)
    /\ conns[i].pc = "awaitClose"
    /\ \A j \in 1..(i - 1) : conns[j].pc # "awaitClose"
    /\ relays[conns[i].old].status = "closed"
    /\ relays' = Append(relays, [url |-> conns[i].url, status |-> "connecting",
                                 sq |-> "none", sqRelay |-> 0])
    /\ relay' = Len(relays) + 1
    /\ conns' = [conns EXCEPT ![i].pc = "awaitConnect", ![i].new = Len(relays) + 1]
    /\ UNCHANGED <<connected, loggedInUser, calls>>
    /\ UNCHANGED aggVars
    /\ UNCHANGED threadVars

\* relay.on('connect'): self-query on this.relay, then connected.next(true)
OnConnect(r) ==
    /\ r \in 1..Len(relays)
    /\ relays[r].status = "connecting"
    /\ relays' = [relays EXCEPT ![r].status = "open",
                                ![r].sq = "pending",
                                ![r].sqRelay = relay]
    /\ connected' = TRUE
    /\ conns' = SettleConnect(conns, r, "done")
    /\ UNCHANGED <<relay, loggedInUser, calls>>
    /\ UNCHANGED aggVars
    /\ UNCHANGED threadVars

\* relay.on('disconnect')
OnDisconnect(r) ==
    /\ r \in 1..Len(relays)
    /\ relays[r].status = "open"
    /\ relays' = [relays EXCEPT ![r].status = "closed"]
    /\ connected' = FALSE
    /\ UNCHANGED <<relay, conns, loggedInUser, calls>>
    /\ UNCHANGED aggVars
    /\ UNCHANGED threadVars

\* relay.on('error'): the socket failed to open; connect() rejects
OnError(r) ==
    /\ r \in 1..Len(relays)
    /\ relays[r].status = "connecting"
    /\ relays' = [relays EXCEPT ![r].status = "closed"]
    /\ connected' = FALSE
    /\ conns' = SettleConnect(conns, r, "failed")
    /\ UNCHANGED <<relay, loggedInUser, calls>>
    /\ UNCHANGED aggVars
    /\ UNCHANGED threadVars

\* the self-query of relay r's 'connect' handler settles: getProfile
\* resolves with a profile (then loggedInUser.next) or throws not-found.
SelfQuery(r, found) ==
    /\ r \in 1..Len(relays)
    /\ relays[r].sq = "pending"
    /\ found => relays[relays[r].sqRelay].status = "open"
    /\ relays' = [relays EXCEPT ![r].sq = IF found THEN "found" ELSE "notfound"]
    /\ loggedInUser' = IF found THEN Append(loggedInUser, r) ELSE loggedInUser
    /\ UNCHANGED <<relay, conns, connected, calls>>
    /\ UNCHANGED aggVars
    /\ UNCHANGED threadVars

\* ---- calls on this.relay ----
RECURSIVE toString(_)

\* where connectRelay stands when a call is made: awaiting close() of the
\* relay this.relay still names while its socket closes, awaiting connect()
\* of the new relay, or neither
ConnectWindow ==
    IF /\ \E j \in 1..Len(conns) : conns[j].pc = "awaitClose" /\ conns[j].old = relay
       /\ relays[relay].status = "closing"
    THEN "awaitClose"
    ELSE IF \E j \in 1..Len(conns) : conns[j].pc = "awaitConnect" /\ conns[j].new = relay
         THEN "awaitConnect"
         ELSE "none"

\* sent: the operation handed a message to this.relay (publish, list, get
\* or sub); tags: the tags of the event an operation returns to its caller
NewCall(kind, arg) ==
    [kind |-> kind, relay |-> relay, arg |-> arg, status |-> "pending",
     live |-> Live(relay), value |-> "", ack |-> "none", late |-> 0,
     matched |-> FALSE, missed |-> FALSE, sent |-> TRUE, tags |-> << >>,
     window |-> ConnectWindow]

\* the receipts a relay may deliver on a subscription, by their tags
SubReceiptTags ==
    {<< >>} \cup {<< <<"bolt11", inv>> >> : inv \in Invoices}

\* (mutant) handlers that hear every acknowledgment on the relay
PubListensAny(c, r, id) ==
    /\ c.kind = "publish"
    /\ c.relay = r

\* publishEvent registers its handlers on the handle relay.publish returned
\* for signedEvent: they hear the acknowledgment of that event on that relay
PubListens(c, r, id) ==
    /\ c.kind = "publish"
    /\ c.relay = r
    /\ c.arg = id

\* resolve / reject of the promise built in publishEvent; a settled promise
\* ignores further resolve / reject calls
PubSettle(c, id, outcome) ==
    IF c.status # "pending" THEN c
    ELSE IF outcome = "ok"
         THEN [c EXCEPT !.status = "resolved", !.value = c.arg]
         ELSE [c EXCEPT !.status = "rejected", !.value = outcome]

\* publishEvent(signedEvent), signedEvent.id = id: relay.publish and the
\* registration of the 'ok' and 'failed' handlers
publishEvent(id) ==
    /\ Ops < MaxOps
    /\ calls' = Append(calls, NewCall("publish", id))
    /\ UNCHANGED <<relays, relay, conns, connected, loggedInUser>>
    /\ UNCHANGED aggVars
    /\ UNCHANGED threadVars

\* relay r acknowledges event id: pub 'ok' (outcome "ok") or 'failed'
\* (outcome = the relay's reason).  The field ack records, for every
\* publish call of that event on that relay, what the relay answered.
PubAck(r, id, outcome) ==
    /\ r \in 1..Len(relays)
    /\ relays[r].status = "open"
    /\ \E i \in 1..Len(calls) :
          /\ calls[i].kind = "publish" /\ calls[i].status = "pending"
          /\ calls[i].relay = r /\ calls[i].arg = id
    /\ calls' = [i \in 1..Len(calls) |->
          LET c == calls[i]
              heard == IF PubListens(c, r, id) THEN PubSettle(c, id, outcome) ELSE c
          IN  IF c.kind = "publish" /\ c.relay = r /\ c.arg = id /\ c.ack = "none"
              THEN [heard EXCEPT !.ack = outcome]
              ELSE heard]
    /\ UNCHANGED <<relays, relay, conns, connected, loggedInUser>>
    /\ UNCHANGED aggVars
    /\ UNCHANGED threadVars

\* deleteEvents(eventId): relay.publish of the kind-5 event and the
\* registration of two handlers that only log.  The async function has no
\* await and no promise tied to the handlers, so the promise it returns is
\* resolved (with no value) as soon as the call returns.
deleteEvents(eventId) ==
    /\ Ops < MaxOps
    /\ calls' = Append(calls, [NewCall("delete", eventId) EXCEPT !.status = "resolved"])
    /\ UNCHANGED <<relays, relay, conns, connected, loggedInUser>>
    /\ UNCHANGED aggVars
    /\ UNCHANGED threadVars

\* the relay acknowledges the deletion event of call i: pub 'ok' or 'failed'
\* with the relay's reason; the handlers log and the caller is not told.
\* The field ack records what the relay answered.
DeleteAck(i, outcome) ==
    /\ i \in 1..Len(calls)
    /\ calls[i].kind = "delete" /\ calls[i].ack = "none"
    /\ relays[calls[i].relay].status = "open"
    /\ calls' = [calls EXCEPT ![i].ack = outcome]
    /\ UNCHANGED <<relays, relay, conns, connected, loggedInUser>>
    /\ UNCHANGED aggVars
    /\ UNCHANGED threadVars

\* Number.prototype.toString() of a non-negative integer
toString(n) ==
    IF n < 10 THEN Digits[n + 1]
    ELSE toString(n \div 10) \o Digits[(n % 10) + 1]

\* the tags of the kind-9734 event built by getZapRequest
ZapRequestTags(answerId, receiverPubKey, amount) ==
    << <<"e", answerId>>, <<"p", receiverPubKey>>,
       <<"amount", toString(amount)>>, <<"relays", relays[relay].url>> >>

\* (mutant) a getZapRequest that hands the event it built to publishEvent
getZapRequestAndPublish(answerId, receiverPubKey, amount) ==
    /\ Ops < MaxOps
    /\ calls' = Append(calls, [NewCall("zapRequest", answerId) EXCEPT
                     !.tags = ZapRequestTags(answerId, receiverPubKey, amount)])
    /\ UNCHANGED <<relays, relay, conns, connected, loggedInUser>>
    /\ UNCHANGED aggVars
    /\ UNCHANGED threadVars

\* getZapRequest(answerId, receiverPubKey, amount): builds and signs the
\* event and returns it encoded; this.relay is only read for its url.
getZapRequest(answerId, receiverPubKey, amount) ==
    /\ Ops < MaxOps
    /\ calls' = Append(calls, [NewCall("zapRequest", answerId) EXCEPT
                     !.status = "resolved", !.value = "kind 9734", !.sent = FALSE,
                     !.tags = ZapRequestTags(answerId, receiverPubKey, amount)])
    /\ UNCHANGED <<relays, relay, conns, connected, loggedInUser>>
    /\ UNCHANGED aggVars
    /\ UNCHANGED threadVars

\* a list-style call (listQuestions, listAnswers, ...): await relay.list
\* a get-style call (getQuestion, getAnswer, getProfile): await relay.get
query(kind) ==
    /\ Ops < MaxOps
    /\ calls' = Append(calls, NewCall(kind, ""))
    /\ UNCHANGED <<relays, relay, conns, connected, loggedInUser>>
    /\ UNCHANGED aggVars
    /\ UNCHANGED threadVars

\* (mutant) a get-style call without the `if (!event) throw`: it goes on
\* and returns what it builds from the missing event
QuerySettleNoThrow(c, found) ==
    [c EXCEPT !.status = "resolved",
              !.value = IF found THEN "events" ELSE "empty"]

\* what the caller of a list-style or get-style call gets: a get-style call
\* throws not-found when relay.get gave null
QuerySettle(c, found) ==
    [c EXCEPT
        !.status = IF c.kind = "get" /\ ~found THEN "rejected" ELSE "resolved",
        !.value = IF found THEN "events"
                  ELSE IF c.kind = "get" THEN "not found" ELSE "empty"]

\* relay.list / relay.get settles: with events while the relay answers, or
\* empty (end of results with no match, or the query timing out).  The
\* field ack records what the relay returned.
QueryDone(i, found) ==
    /\ i \in 1..Len(calls)
    /\ calls[i].kind \in {"list", "get"}
    /\ calls[i].status = "pending"
    /\ found => relays[calls[i].relay].status = "open"
    /\ calls' = [calls EXCEPT
          ![i] = [QuerySettle(calls[i], found) EXCEPT
                     !.ack = IF found THEN "event" ELSE "null"]]
    /\ UNCHANGED <<relays, relay, conns, connected, loggedInUser>>
    /\ UNCHANGED aggVars
    /\ UNCHANGED threadVars

\* waitForZap(answerId, invoice): relay.sub and the 'event' handler
waitForZap(invoice) ==
    /\ Ops < MaxOps
    /\ calls' = Append(calls, NewCall("waitForZap", invoice))
    /\ UNCHANGED <<relays, relay, conns, connected, loggedInUser>>
    /\ UNCHANGED aggVars
    /\ UNCHANGED threadVars

\* the subscription of call i is open at the relay: waitForZap never
\* calls sub.unsub(), so it lasts as long as the relay's socket
SubOpen(i) ==
    /\ calls[i].kind = "waitForZap"
    /\ relays[calls[i].relay].status \in {"connecting", "open"}

\* (mutant) any receipt that carries an invoice resolves the wait
ZapMatchesAnyInvoice(tags, invoice) ==
    LET bolt11Tag == getTag(tags, "bolt11")
    IN  Truthy(bolt11Tag)

\* does the 'event' handler of waitForZap resolve on this receipt
ZapMatches(tags, invoice) ==
    LET bolt11Tag == getTag(tags, "bolt11")
    IN  Truthy(bolt11Tag) /\ bolt11Tag = invoice

\* the receipt carries the invoice in a bolt11 tag
CarriesInvoice(tags, invoice) ==
    \E k \in 1..Len(tags) :
        Len(tags[k]) = 2 /\ tags[k][1] = "bolt11" /\ tags[k][2] = invoice

\* the relay delivers a receipt on the subscription of call i: the 'event'
\* handler runs.  late counts the runs that follow the resolve; matched and
\* missed record whether a receipt with, and one without, the awaited
\* invoice has been delivered.
SubEvent(i, tags) ==
    /\ i \in 1..Len(calls)
    /\ calls[i].kind = "waitForZap"
    /\ relays[calls[i].relay].status = "open"
    /\ calls[i].status = "resolved" => calls[i].late < MaxLate
    /\ calls' = [calls EXCEPT
          ![i].late = IF calls[i].status = "resolved" THEN @ + 1 ELSE @,
          ![i].matched = @ \/ CarriesInvoice(tags, calls[i].arg),
          ![i].missed = @ \/ ~CarriesInvoice(tags, calls[i].arg),
          ![i].status = IF ZapMatches(tags, calls[i].arg) THEN "resolved" ELSE @]
    /\ UNCHANGED <<relays, relay, conns, connected, loggedInUser>>
    /\ UNCHANGED aggVars
    /\ UNCHANGED threadVars

\* ---- the connection specification ----
Next ==
    \/ \E url \in Urls : connectRelay(url)
    \/ \E r \in 1..MaxRelays, notify \in BOOLEAN : RelayClosed(r, notify)
    \/ \E i \in 1..MaxRelays : connect(i)
    \/ \E r \in 1..MaxRelays : OnConnect(r)
    \/ \E r \in 1..MaxRelays : OnDisconnect(r)
    \/ \E r \in 1..MaxRelays : OnError(r)
    \/ \E r \in 1..MaxRelays, found \in BOOLEAN : SelfQuery(r, found)
    \/ \E id \in EventIds : publishEvent(id)
    \/ \E r \in 1..MaxRelays, id \in EventIds, o \in {"ok"} \cup Reasons : PubAck(r, id, o)
    \/ \E id \in TargetIds : deleteEvents(id)
    \/ \E i \in 1..MaxOps, o \in {"ok"} \cup Reasons : DeleteAck(i, o)
    \/ \E id \in TargetIds, pk \in Receivers, amount \in ZapAmounts :
          getZapRequest(id, pk, amount)
    \/ \E kind \in {"list", "get"} : query(kind)
    \/ \E i \in 1..MaxOps, found \in BOOLEAN : QueryDone(i, found)
    \/ \E inv \in Invoices : waitForZap(inv)
    \/ \E i \in 1..MaxOps, tags \in SubReceiptTags : SubEvent(i, tags)

Spec == Init /\ [][Next]_vars

\* What the runtime and a responsive relay guarantee: a suspended connect
\* resumes, a closing socket closes, an opening socket opens or fails, the
\* relay answers what it can answer, and queries end (at the latest by
\* timing out).  Nothing obliges the application to make further calls or
\* the network to drop a connection.
Fairness ==
    /\ WF_vars(\E i \in 1..MaxRelays : connect(i))
    /\ WF_vars(\E r \in 1..MaxRelays, notify \in BOOLEAN :
                  RelayClosed(r, notify))
    /\ WF_vars(\E r \in 1..MaxRelays :
                  (OnConnect(r) \/ OnError(r)))
    /\ WF_vars(\E r \in 1..MaxRelays, found \in BOOLEAN :
                  SelfQuery(r, found))
    /\ WF_vars(\E r \in 1..MaxRelays, id \in EventIds, o \in {"ok"} \cup Reasons :
                  PubAck(r, id, o))
    /\ WF_vars(\E i \in 1..MaxOps, found \in BOOLEAN :
                  QueryDone(i, found))

FairSpec == Spec /\ Fairness

\* ---- claims about the connection and the calls ----

\* C1: at most one relay object is connecting or connected in every
\* reachable state, and once every connectRelay call has settled the only
\* live connection is the one opened by the last call.
C1_AtMostOneLive ==
    /\ Cardinality(LiveRelays) <= 1
    /\ (\A i \in 1..Len(conns) : conns[i].pc \in {"done", "failed"})
          => LiveRelays \subseteq {conns[Len(conns)].new}

\* C2: a publishEvent call is pending exactly as long as the relay has not
\* acknowledged its own event; after the acknowledgment it is resolved with
\* the event id ('ok') or rejected with the relay's reason ('failed'), and
\* acknowledgments of other events never settle it.
C2_PublishSettlesOnOwnAck ==
    \A i \in 1..Len(calls) :
        calls[i].kind = "publish" =>
            /\ calls[i].status = "pending" <=> calls[i].ack = "none"
            /\ calls[i].ack = "ok" =>
                   calls[i].status = "resolved" /\ calls[i].value = calls[i].arg
            /\ calls[i].ack \in Reasons =>
                   calls[i].status = "rejected" /\ calls[i].value = calls[i].ack

\* two publishes of different events on one relay, the second one rejected
\* by the relay while the first is still unacknowledged
C2_Witness ==
    /\ Len(calls) = 2
    /\ calls[1].kind = "publish" /\ calls[2].kind = "publish"
    /\ calls[1].relay = calls[2].relay
    /\ calls[1].arg # calls[2].arg
    /\ calls[1].status = "pending"
    /\ calls[2].status = "rejected" /\ calls[2].value = "blocked"

\* call i has been made and has not settled
Pending(i) == i <= Len(calls) /\ calls[i].status = "pending"

\* call i was started on a live connection and is pending while a
\* connectRelay call tears that connection down
PendingAtTeardown(i) ==
    /\ Pending(i)
    /\ calls[i].live
    /\ relays[calls[i].relay].status = "closing"

\* C3: a call started on a connection and still pending when connectRelay
\* tears that connection down eventually completes or fails.
C3_NoHangPastTeardown ==
    \A i \in 1..MaxOps : PendingAtTeardown(i) ~> ~Pending(i)

\* C11: a waitForZap call is resolved exactly when a receipt whose bolt11
\* tag equals its invoice has been delivered on its subscription; receipts
\* without that tag value leave it pending, and it never fails.
C11_ResolvesOnlyOnMatchingReceipt ==
    \A i \in 1..Len(calls) :
        calls[i].kind = "waitForZap" =>
            /\ calls[i].status = "resolved" <=> calls[i].matched
            /\ calls[i].status = "pending" <=> ~calls[i].matched

\* a wait for lnbc1 that saw a receipt without that invoice and is pending
C11_Witness ==
    \E i \in 1..Len(calls) :
        /\ calls[i].kind = "waitForZap" /\ calls[i].arg = "lnbc1"
        /\ calls[i].missed /\ ~calls[i].matched
        /\ calls[i].status = "pending"

\* the socket of the relay the service holds is up (still up, when close()
\* has been called on it and has not completed)
CurrentRelayConnected == relays[relay].status \in {"open", "closing"}

\* C12: the last value emitted by isConnected() is true only if the relay
\* currently held by the service is connected.
C12_ConnectedReflectsCurrentRelay ==
    connected => CurrentRelayConnected

\* the relay objects whose self-query resolved with a profile
FoundRelays == {r \in 1..Len(relays) : relays[r].sq = "found"}

\* one self-query per 'connect' event, one emission per self-query that
\* found a profile, none otherwise
OneEmissionPerSelfQuery ==
    /\ \A r \in 1..Len(relays) : relays[r].status = "open" => relays[r].sq # "none"
    /\ {loggedInUser[k] : k \in 1..Len(loggedInUser)} = FoundRelays
    /\ Len(loggedInUser) = Cardinality(FoundRelays)

\* C13: each 'connect' event issues one self-query, the logged-in-profile
\* stream emits once per self-query that found a profile and not otherwise,
\* and the values are emitted in the order of their connects, so that the
\* value a late subscriber sees last belongs to the latest connect.
C13_ProfileOfLatestConnect ==
    /\ OneEmissionPerSelfQuery
    /\ \A j, k \in 1..Len(loggedInUser) :
          j < k => loggedInUser[j] < loggedInUser[k]

\* C14: a get-style call (getQuestion, getAnswer, getProfile) for which the
\* relay returned no event fails with not-found and returns no value; so
\* does the self-query getProfile of a 'connect' handler, which then emits
\* no profile.
C14_GetFailsWithNotFound ==
    /\ \A i \in 1..Len(calls) :
          (calls[i].kind = "get" /\ calls[i].ack = "null") =>
              calls[i].status = "rejected" /\ calls[i].value = "not found"
    /\ \A r \in 1..Len(relays) :
          relays[r].sq = "notfound" =>
              \A k \in 1..Len(loggedInUser) : loggedInUser[k] # r

\* a get-style call the relay answered with no event, and a self-query
\* that found no profile
C14_Witness ==
    /\ \E i \in 1..Len(calls) :
          calls[i].kind = "get" /\ calls[i].ack = "null" /\ calls[i].status = "rejected"
    /\ \E r \in 1..Len(relays) : relays[r].sq = "notfound"

\* C15: a publishing operation settles only after the relay's
\* acknowledgment of its event, and fails when the relay answered 'failed';
\* this includes deleteEvents.
C15_PublishingReportsOutcome ==
    \A i \in 1..Len(calls) :
        calls[i].kind \in {"publish", "delete"} =>
            /\ calls[i].status # "pending" => calls[i].ack # "none"
            /\ calls[i].ack \in Reasons => calls[i].status = "rejected"

\* a step in which getZapRequest returned
ZapRequestStep ==
    /\ Len(calls') = Len(calls) + 1
    /\ calls'[Len(calls')].kind = "zapRequest"

\* C16: getZapRequest sends no message to the relay and changes no
\* connection or session state; it only returns the kind-9734 event with
\* its e, p, amount and relays tags, and the relay never acknowledges it.
C16_ZapRequestNeverPublishes ==
    /\ [][ZapRequestStep =>
            /\ UNCHANGED <<relays, relay, conns, connected, loggedInUser>>
            /\ SubSeq(calls', 1, Len(calls)) = calls
            /\ LET c == calls'[Len(calls')]
               IN  /\ ~c.sent /\ c.status = "resolved" /\ c.value = "kind 9734"
                   /\ getTag(c.tags, "e") = c.arg
                   /\ getTag(c.tags, "p") \in Receivers
                   /\ getTag(c.tags, "amount") \in {"1000", "21000"}
                   /\ getTag(c.tags, "relays") = relays[relay].url]_vars
    /\ [](\A i \in 1..Len(calls) :
            calls[i].kind = "zapRequest" => ~calls[i].sent /\ calls[i].ack = "none")

\* a zap request for 21000 msat built while the relay is connected and
\* another call is waiting for that relay
C16_Witness ==
    \E i, j \in 1..Len(calls) :
        /\ calls[i].kind = "zapRequest" /\ getTag(calls[i].tags, "amount") = "21000"
        /\ relays[calls[i].relay].status = "open" /\ connected
        /\ calls[j].kind = "publish" /\ calls[j].status = "pending"

\* a publish, list or get call made while connectRelay was awaiting the
\* old relay's close(), and still pending
PendingFromConnectWindow(i) ==
    /\ Pending(i)
    /\ calls[i].kind \in {"publish", "list", "get"}
    /\ calls[i].window = "awaitClose"

\* C18: a publish, list or get call made while connectRelay awaits the old
\* relay's close() is not handed to the relay being torn down and left
\* pending: it is served by the new connection or it fails.
C18_NoHangFromConnectWindow ==
    \A i \in 1..MaxOps : PendingFromConnectWindow(i) ~> ~Pending(i)

\* C10: once waitForZap has resolved, its subscription is closed and its
\* event callback has not run again.
C10_ResolvedWaitIsCancelled ==
    \A i \in 1..Len(calls) :
        (calls[i].kind = "waitForZap" /\ calls[i].status = "resolved") =>
            ~SubOpen(i) /\ calls[i].late = 0

\* ---- getVoteResult ----
Pubkeys == {"A", "B"}
Times == {1, 2}
Contents == {"+", "-", "x"}

\* the kind-7 events a relay may return, by the fields getVoteResult reads
VoteEvents == [pubkey : Pubkeys, created_at : Times, content : Contents]

\* sum of f[k] over the keys of f
RECURSIVE SumOf(_)
SumOf(f) ==
    IF DOMAIN f = {} THEN 0
    ELSE LET k == CHOOSE x \in DOMAIN f : TRUE
         IN  f[k] + SumOf([x \in DOMAIN f \ {k} |-> f[x]])

\* (mutant) no content test: every reaction enters the latest-vote map
IsVoteAny(e) == e.content = e.content

\* the content test that guards the latest-vote map
IsVote(e) == e.content = "+" \/ e.content = "-"

\* (mutant) delivery order trusted: a later-delivered vote always replaces
NewerTrustOrder(existingVote, e) == existingVote.pubkey = e.pubkey

\* (mutant) the comparison the wrong way round: the earliest vote is kept
NewerFlipped(existingVote, e) == existingVote.created_at > e.created_at

\* the stored vote is replaced when it is strictly older
\* (mutant) an event of equal created_at replaces the kept one too
NewerOrEqual(existingVote, e) == existingVote.created_at <= e.created_at

Newer(existingVote, e) == existingVote.created_at < e.created_at

\* latestVotes after events.forEach: pubkey -> kept event
RECURSIVE latestVotes(_)
latestVotes(events) ==
    IF events = << >> THEN [k \in {} |-> 0]
    ELSE LET prev == latestVotes(SubSeq(events, 1, Len(events) - 1))
             e == events[Len(events)]
         IN  IF IsVote(e) /\ (e.pubkey \notin DOMAIN prev \/ Newer(prev[e.pubkey], e))
             THEN [k \in DOMAIN prev \cup {e.pubkey} |->
                      IF k = e.pubkey THEN e ELSE prev[k]]
             ELSE prev

\* what one kept event adds to result
VoteValue(e) ==
    IF e.content = "+" THEN 1
    ELSE IF e.content = "-" THEN -1
    ELSE 0

\* (mutant) the latest reaction per author whatever its content, "+" as +1
\* and anything else as -1
getVoteResultCountAll(events) ==
    LET kept == {k \in Pubkeys : \E i \in 1..Len(events) : events[i].pubkey = k}
        last(k) == LET idx == {i \in 1..Len(events) : events[i].pubkey = k}
                       top == CHOOSE i \in idx :
                                 \A j \in idx : events[j].created_at <= events[i].created_at
                   IN  events[top]
    IN  SumOf([k \in kept |-> IF last(k).content = "+" THEN 1 ELSE -1])

\* (mutant) every "+" and "-" returned is counted, with no latest-per-author
\* selection
getVoteResultEveryVote(events) ==
    SumOf([i \in 1..Len(events) |-> VoteValue(events[i])])

\* getVoteResult on the events relay.list returned
getVoteResult(events) ==
    LET latest == latestVotes(events)
    IN  SumOf([k \in DOMAIN latest |-> VoteValue(latest[k])])

\* relay.list collects one more event before the end of results
VoteListEvent(e) ==
    /\ ~voteResult.done
    /\ Len(votes) < MaxVotes
    /\ votes' = Append(votes, e)
    /\ UNCHANGED <<voteResult, zaps, zapResult>>
    /\ UNCHANGED netVars
    /\ UNCHANGED threadVars

\* relay.list resolves and getVoteResult returns
VoteReturn ==
    /\ ~voteResult.done
    /\ voteResult' = [done |-> TRUE, value |-> getVoteResult(votes)]
    /\ UNCHANGED <<votes, zaps, zapResult>>
    /\ UNCHANGED netVars
    /\ UNCHANGED threadVars

VoteNext ==
    \/ \E e \in VoteEvents : VoteListEvent(e)
    \/ VoteReturn

VoteSpec == Init /\ [][VoteNext]_vars

\* ---- claims about getVoteResult ----
Authors(events) == {events[i].pubkey : i \in 1..Len(events)}

AllVotes(events) == \A i \in 1..Len(events) : events[i].content \in {"+", "-"}

\* the positions of author a's events with content "+" or "-"
ValidOf(a, events) ==
    {i \in 1..Len(events) : events[i].pubkey = a /\ events[i].content \in {"+", "-"}}

\* within the positions idx, created_at values are pairwise distinct
DistinctTimes(idx, events) ==
    \A i, j \in idx : i # j => events[i].created_at # events[j].created_at

\* the position in idx (non-empty, distinct times) with the greatest created_at
LatestIn(idx, events) ==
    CHOOSE i \in idx : \A j \in idx : events[j].created_at <= events[i].created_at

Sign(e) == IF e.content = "+" THEN 1 ELSE -1

\* +1 / -1 after author a's latest "+" / "-" event, 0 when a has none
LatestValidSign(a, events) ==
    IF ValidOf(a, events) = {} THEN 0
    ELSE Sign(events[LatestIn(ValidOf(a, events), events)])

Without(a, events) == SelectSeq(events, LAMBDA e : e.pubkey # a)

\* what author a's events add to the tally
Contribution(a, events) == getVoteResult(events) - getVoteResult(Without(a, events))

RemoveAt(events, i) == SubSeq(events, 1, i - 1) \o SubSeq(events, i + 1, Len(events))

Injective(f) == \A i, j \in DOMAIN f : i # j => f[i] # f[j]

\* every order in which the relay may deliver the same events
Reorderings(events) ==
    {[i \in 1..Len(events) |-> events[p[i]]] :
        p \in {f \in [1..Len(events) -> 1..Len(events)] : Injective(f)}}

\* C4: when every returned event is "+" or "-" and each author's events
\* have pairwise distinct created_at, the result is the sum over the authors
\* of +1 / -1 after each author's event with the greatest created_at.
C4_LatestVotePerAuthor ==
    ( /\ voteResult.done
      /\ AllVotes(votes)
      /\ \A a \in Authors(votes) : DistinctTimes(ValidOf(a, votes), votes) )
    => voteResult.value =
         SumOf([a \in Authors(votes) |-> LatestValidSign(a, votes)])

\* A:"+"@1, A:"-"@2, B:"+"@1 was returned and the tally is 0
C4_Witness ==
    /\ voteResult.done
    /\ votes = << [pubkey |-> "A", created_at |-> 1, content |-> "+"],
                  [pubkey |-> "A", created_at |-> 2, content |-> "-"],
                  [pubkey |-> "B", created_at |-> 1, content |-> "+"] >>
    /\ voteResult.value = 0

\* C5 (as claimed): the result is the same for every order in which the
\* relay may return the same events.
C5_OrderIndependent ==
    voteResult.done =>
        \A other \in Reorderings(votes) : getVoteResult(other) = voteResult.value

\* no author has, at the greatest created_at of their "+" / "-" events,
\* both a "+" and a "-"
NoConflictingTie(events) ==
    \A a \in Authors(events) :
        \A i, j \in ValidOf(a, events) :
            ( /\ events[i].created_at = events[j].created_at
              /\ \A k \in ValidOf(a, events) :
                    events[k].created_at <= events[i].created_at )
            => events[i].content = events[j].content

\* C5 (amended): the result is the same for every delivery order of the
\* same events, provided no author has a "+" and a "-" that tie at that
\* author's greatest created_at.
C5_OrderIndependentWithoutTies ==
    (voteResult.done /\ NoConflictingTie(votes)) =>
        \A other \in Reorderings(votes) : getVoteResult(other) = voteResult.value

\* an author's newer "-" was delivered before their older "+", and another
\* author's vote after both
C5_Witness ==
    /\ voteResult.done
    /\ votes = << [pubkey |-> "A", created_at |-> 2, content |-> "-"],
                  [pubkey |-> "A", created_at |-> 1, content |-> "+"],
                  [pubkey |-> "B", created_at |-> 1, content |-> "+"] >>
    /\ voteResult.value = 0

\* author a's event with the greatest created_at is unique and its content
\* is neither "+" nor "-"
LatestIsMalformed(a, events) ==
    \E i \in 1..Len(events) :
        /\ events[i].pubkey = a
        /\ events[i].content \notin {"+", "-"}
        /\ \A j \in 1..Len(events) :
              (j # i /\ events[j].pubkey = a) =>
                  events[j].created_at < events[i].created_at

\* C6 (as claimed): an author whose latest event is neither "+" nor "-"
\* contributes 0, even with an earlier "+" or "-".
C6_MalformedLatestCountsZero ==
    voteResult.done =>
        \A a \in Authors(votes) :
            LatestIsMalformed(a, votes) =>
                voteResult.value - getVoteResult(Without(a, votes)) = 0

\* C6 (amended): events that are neither "+" nor "-" are ignored before the
\* latest event per author is chosen, so an author whose latest event is
\* malformed contributes what their latest "+" / "-" event says (distinct
\* created_at), and 0 only when they have no "+" / "-" event.
C6_MalformedLatestFallsBack ==
    voteResult.done =>
        \A a \in Authors(votes) :
            (LatestIsMalformed(a, votes) /\ DistinctTimes(ValidOf(a, votes), votes)) =>
                voteResult.value - getVoteResult(Without(a, votes))
                    = LatestValidSign(a, votes)

\* A:"+"@1 then A:"x"@2 was returned and the tally is 1
C6_Witness ==
    /\ voteResult.done
    /\ votes = << [pubkey |-> "A", created_at |-> 1, content |-> "+"],
                  [pubkey |-> "A", created_at |-> 2, content |-> "x"] >>
    /\ voteResult.value = 1

\* C7: a returned sequence of malformed events only gives 0, and a malformed
\* event by an author with no other event changes nothing: the result
\* equals the result for the sequence without it.
C7_MalformedContributesZero ==
    voteResult.done =>
        /\ (\A i \in 1..Len(votes) : votes[i].content \notin {"+", "-"})
              => voteResult.value = 0
        /\ \A i \in 1..Len(votes) :
              ( /\ votes[i].content \notin {"+", "-"}
                /\ \A j \in 1..Len(votes) : j # i => votes[j].pubkey # votes[i].pubkey )
              => voteResult.value = getVoteResult(RemoveAt(votes, i))

\* B:"+"@1 and the lone malformed A:"x"@1 were returned and the tally is 1
C7_Witness ==
    /\ voteResult.done
    /\ votes = << [pubkey |-> "B", created_at |-> 1, content |-> "+"],
                  [pubkey |-> "A", created_at |-> 1, content |-> "x"] >>
    /\ voteResult.value = 1

\* among author a's "+" / "-" events with the greatest created_at, the one
\* the relay delivered first
FirstLatestValid(a, events) ==
    LET idx == ValidOf(a, events)
        top == {i \in idx : \A j \in idx : events[j].created_at <= events[i].created_at}
    IN  Min(top)

VotingAuthors(events) == {a \in Authors(events) : ValidOf(a, events) # {}}

\* C19: of an author's "+" / "-" votes with the greatest created_at the one
\* delivered first is the one counted: the tally is the sum, over the authors
\* with such a vote, of the sign of that vote.
C19_FirstDeliveredWinsTie ==
    voteResult.done =>
        voteResult.value =
            SumOf([a \in VotingAuthors(votes) |->
                      Sign(votes[FirstLatestValid(a, votes)])])

\* A:"+"@2 was delivered before A:"-"@2, after the older A:"-"@1: the tally is 1
C19_Witness ==
    /\ voteResult.done
    /\ votes = << [pubkey |-> "A", created_at |-> 1, content |-> "-"],
                  [pubkey |-> "A", created_at |-> 2, content |-> "+"],
                  [pubkey |-> "A", created_at |-> 2, content |-> "-"] >>
    /\ voteResult.value = 1

\* C20: the absolute value of the tally is at most the number of distinct
\* authors with at least one "+" or "-" vote.
C20_TallyBoundedByAuthors ==
    voteResult.done =>
        /\ voteResult.value <= Cardinality(VotingAuthors(votes))
        /\ -voteResult.value <= Cardinality(VotingAuthors(votes))

\* one author sent "+" three times, once again with the same created_at: the
\* tally is 1
C20_Witness ==
    /\ voteResult.done
    /\ votes = << [pubkey |-> "B", created_at |-> 1, content |-> "+"],
                  [pubkey |-> "B", created_at |-> 2, content |-> "+"],
                  [pubkey |-> "B", created_at |-> 2, content |-> "+"] >>
    /\ voteResult.value = 1

\* ---- getZaps ----
\* description tag values a receipt may carry
NotJson == "not json"
EmptyObject == "{}"
RequestNoAmount == "{\"kind\":9734,\"tags\":[[\"p\",\"B\"]]}"
Request3000 == "{\"kind\":9734,\"tags\":[[\"p\",\"B\"],[\"amount\",\"3000\"]]}"
Request5000 == "{\"kind\":9734,\"tags\":[[\"amount\",\"5000\"],[\"amount\",\"3000\"]]}"
Request1500 == "{\"kind\":9734,\"tags\":[[\"amount\",\"1500\"]]}"

Descriptions ==
    {"", NotJson, EmptyObject, RequestNoAmount, Request3000, Request5000, Request1500}

\* the kind-9735 events a relay may return, by their tags
ZapEvents ==
    {[tags |-> << >>], [tags |-> << <<"description">> >>]}
    \cup {[tags |-> << <<"bolt11", "lnbc1">>, <<"description", d>> >>] : d \in Descriptions}

\* JSON.parse on the description values above: ok = FALSE is a SyntaxError;
\* hasTags says whether the parsed value has a `tags` array
JSONParse(text) ==
    CASE text = EmptyObject -> [ok |-> TRUE, hasTags |-> FALSE, tags |-> << >>]
      [] text = RequestNoAmount ->
            [ok |-> TRUE, hasTags |-> TRUE, tags |-> << <<"p", "B">> >>]
      [] text = Request3000 ->
            [ok |-> TRUE, hasTags |-> TRUE,
             tags |-> << <<"p", "B">>, <<"amount", "3000">> >>]
      [] text = Request5000 ->
            [ok |-> TRUE, hasTags |-> TRUE,
             tags |-> << <<"amount", "5000">>, <<"amount", "3000">> >>]
      [] text = Request1500 ->
            [ok |-> TRUE, hasTags |-> TRUE, tags |-> << <<"amount", "1500">> >>]
      [] OTHER -> [ok |-> FALSE, hasTags |-> FALSE, tags |-> << >>]

\* A JavaScript number is held as its count of thousandths, which is exact
\* for every value the amounts above produce.
\* Number(text) for the decimal strings above
Number(text) ==
    CASE text = "3000" -> 3000 * 1000
      [] text = "5000" -> 5000 * 1000
      [] text = "1500" -> 1500 * 1000
      [] OTHER -> 0

\* (mutant) the amount taken as it is, without the division
ZapAmountUndivided(e) ==
    LET desc == getTag(e.tags, "description")
    IN  IF Truthy(desc)
        THEN LET amount == getTag(JSONParse(desc).tags, "amount")
             IN  IF Truthy(amount) THEN Number(amount) ELSE 0
        ELSE 0

\* what the flatMap callback returns for one receipt that does not throw
ZapAmount(e) ==
    LET desc == getTag(e.tags, "description")
    IN  IF Truthy(desc)
        THEN LET amount == getTag(JSONParse(desc).tags, "amount")
             IN  IF Truthy(amount) THEN Number(amount) \div 1000 ELSE 0
        ELSE 0

\* the flatMap callback throws: JSON.parse raises a SyntaxError, or the
\* parsed value has no tags and getTag calls find on undefined
ZapThrows(e) ==
    LET desc == getTag(e.tags, "description")
    IN  Truthy(desc) /\ (~JSONParse(desc).ok \/ ~JSONParse(desc).hasTags)

RECURSIVE ZapSum(_)
ZapSum(events) ==
    IF events = << >> THEN 0
    ELSE ZapSum(SubSeq(events, 1, Len(events) - 1)) + ZapAmount(events[Len(events)])

\* getZaps on the events relay.list returned: the promise rejects when the
\* callback throws, else resolves with the sum
getZaps(events) ==
    IF \E i \in 1..Len(events) : ZapThrows(events[i])
    THEN [status |-> "rejected", value |-> 0]
    ELSE [status |-> "resolved", value |-> ZapSum(events)]

\* relay.list collects one more receipt before the end of results
ZapListEvent(e) ==
    /\ zapResult.status = "pending"
    /\ Len(zaps) < MaxZaps
    /\ zaps' = Append(zaps, e)
    /\ UNCHANGED <<votes, voteResult, zapResult>>
    /\ UNCHANGED netVars
    /\ UNCHANGED threadVars

\* relay.list resolves and getZaps settles
ZapReturn ==
    /\ zapResult.status = "pending"
    /\ zapResult' = getZaps(zaps)
    /\ UNCHANGED <<votes, voteResult, zaps>>
    /\ UNCHANGED netVars
    /\ UNCHANGED threadVars

ZapNext ==
    \/ \E e \in ZapEvents : ZapListEvent(e)
    \/ ZapReturn

ZapSpec == Init /\ [][ZapNext]_vars

\* ---- claims about getZaps ----
\* the description a receipt carries, "" when it has none
DescriptionOf(e) ==
    IF \E i \in 1..Len(e.tags) : Len(e.tags[i]) >= 2 /\ e.tags[i][1] = "description"
    THEN e.tags[CHOOSE i \in 1..Len(e.tags) :
                    Len(e.tags[i]) >= 2 /\ e.tags[i][1] = "description"][2]
    ELSE ""

\* the amount (smallest unit) of the payment request a description embeds;
\* 0 for a request without amount tag and for anything that is no request
EmbeddedAmount(text) ==
    CASE text = Request3000 -> 3000
      [] text = Request5000 -> 5000
      [] text = Request1500 -> 1500
      [] OTHER -> 0

IsRequest(text) == text \in {RequestNoAmount, Request3000, Request5000, Request1500}

\* total of the embedded amounts, in the smallest unit
RECURSIVE EmbeddedTotal(_)
EmbeddedTotal(events) ==
    IF events = << >> THEN 0
    ELSE EmbeddedTotal(SubSeq(events, 1, Len(events) - 1))
           + EmbeddedAmount(DescriptionOf(events[Len(events)]))

\* C8: whatever receipts are returned, getZaps resolves, and with the sum
\* of what the well-formed receipts embed (a receipt with a missing or
\* unparseable description counting 0).  value is in thousandths of the
\* display unit, so it equals the total in the smallest unit.
C8_MalformedReceiptsTolerated ==
    zapResult.status # "pending" =>
        /\ zapResult.status = "resolved"
        /\ zapResult.value = EmbeddedTotal(zaps)

\* C9: when every returned receipt carries a parseable payment request,
\* getZaps resolves with the sum of amount/1000 over the receipts, a request
\* without amount tag counting 0; amounts 3000 and 5000 give 8.
C9_SumOfAmounts ==
    ( /\ zapResult.status # "pending"
      /\ \A i \in 1..Len(zaps) : IsRequest(DescriptionOf(zaps[i])) )
    => /\ zapResult.status = "resolved"
       /\ zapResult.value = EmbeddedTotal(zaps)
       /\ ( /\ Len(zaps) = 2
            /\ DescriptionOf(zaps[1]) = Request3000
            /\ DescriptionOf(zaps[2]) = Request5000 )
          => zapResult.value = 8 * 1000

\* receipts embedding 3000, 5000 and a request without amount gave 8
C9_Witness ==
    /\ zapResult.status = "resolved"
    /\ Len(zaps) = 3
    /\ DescriptionOf(zaps[1]) = Request3000
    /\ DescriptionOf(zaps[2]) = Request5000
    /\ DescriptionOf(zaps[3]) = RequestNoAmount
    /\ zapResult.value = 8 * 1000

\* ---- createOrUpdateQuestion and listQuestions ----
MaxThreadOps == 3     \* createOrUpdateQuestion and listQuestions calls

Self == "me"          \* the public key of keyManagementService's key

\* the (name, about, picture) a caller passes
Drafts ==
    { [name |-> <<"Q", "1">>, about |-> <<"b", "o", "d", "y">>, picture |-> << >>],
      [name |-> <<"a", "\"", "\\">>, about |-> <<"\"", "b", "\"">>, picture |-> <<"p">>] }

QuestionIds == {Undefined, "q0"}
CreatedAts == {1, 2}

RECURSIVE EscapeNone(_)
RECURSIVE Escape(_)
RECURSIVE ReadString(_, _, _)
RECURSIVE ReadMembers(_, _, _)

\* (mutant) string contents written as they are
EscapeNone(text) ==
    IF text = << >> THEN << >> ELSE <<Head(text)>> \o EscapeNone(Tail(text))

\* JSON.stringify of a string's contents: quote and backslash get a backslash
Escape(text) ==
    IF text = << >> THEN << >>
    ELSE (IF Head(text) \in {"\"", "\\"} THEN <<"\\", Head(text)>> ELSE <<Head(text)>>)
         \o Escape(Tail(text))

Quoted(text) == <<"\"">> \o Escape(text) \o <<"\"">>

\* JSON.stringify({name, about, picture})
JSONStringify(content) ==
    <<"{">> \o Quoted(KeyName) \o <<":">> \o Quoted(content.name)
    \o <<",">> \o Quoted(KeyAbout) \o <<":">> \o Quoted(content.about)
    \o <<",">> \o Quoted(KeyPicture) \o <<":">> \o Quoted(content.picture)
    \o <<"}">>

ParseError == [ok |-> FALSE, value |-> << >>, next |-> 0]

\* JSON.parse reading a string whose opening quote is before position p
ReadString(s, p, acc) ==
    IF p > Len(s) THEN ParseError
    ELSE IF s[p] = "\"" THEN [ok |-> TRUE, value |-> acc, next |-> p + 1]
    ELSE IF s[p] = "\\"
         THEN IF p + 1 > Len(s) THEN ParseError
              ELSE ReadString(s, p + 2, Append(acc, s[p + 1]))
    ELSE ReadString(s, p + 1, Append(acc, s[p]))

\* JSON.parse reading the members "key":"value" of an object from position p
ReadMembers(s, p, members) ==
    IF ~(p <= Len(s) /\ s[p] = "\"") THEN ParseError
    ELSE LET k == ReadString(s, p + 1, << >>)
         IN  IF ~k.ok \/ k.next + 1 > Len(s) THEN ParseError
             ELSE IF s[k.next] # ":" \/ s[k.next + 1] # "\"" THEN ParseError
             ELSE LET v == ReadString(s, k.next + 2, << >>)
                      read == Append(members, <<k.value, v.value>>)
                  IN  IF ~v.ok \/ v.next > Len(s) THEN ParseError
                      ELSE IF s[v.next] = "," THEN ReadMembers(s, v.next + 1, read)
                      ELSE IF s[v.next] = "}" /\ v.next = Len(s)
                           THEN [ok |-> TRUE, value |-> read, next |-> v.next + 1]
                      ELSE ParseError

\* JSON.parse of an object of string members; ok = FALSE when it throws
JSONParseObject(s) ==
    IF Len(s) >= 1 /\ s[1] = "{" THEN ReadMembers(s, 2, << >>) ELSE ParseError

\* object[key]: the value of the last member named key, or undefined
Member(object, key) ==
    LET hits == {i \in 1..Len(object) : object[i][1] = key}
    IN  IF hits = {} THEN UndefinedText
        ELSE object[CHOOSE i \in hits : \A j \in hits : j <= i][2]

ThreadOps == Len(created) + Len(questions)

\* the signed event createOrUpdateQuestion builds
QuestionEvent(name, about, picture, questionId, created_at) ==
    finishEvent(
        [kind |-> IF Truthy(questionId) THEN 41 ELSE 40,
         created_at |-> created_at,
         tags |-> << <<"t", ZAPSTACK_TAG>>, <<"subject", name>> >>
                  \o (IF Truthy(questionId)
                      THEN << <<"e", questionId, relays[relay].url>> >>
                      ELSE << >>),
         content |-> JSONStringify([name |-> name, about |-> about, picture |-> picture])],
        Self)

\* createOrUpdateQuestion(name, about, picture, questionId?) up to the
\* relay.publish inside publishEvent; created_at is the clock's second
createOrUpdateQuestion(name, about, picture, questionId) ==
    /\ ThreadOps < MaxThreadOps
    /\ \E created_at \in CreatedAts :
          created' = Append(created,
              [name |-> name, about |-> about, picture |-> picture,
               questionId |-> questionId,
               event |-> QuestionEvent(name, about, picture, questionId, created_at),
               status |-> "pending", value |-> << >>])
    /\ UNCHANGED <<store, questions>>
    /\ UNCHANGED netVars
    /\ UNCHANGED aggVars

\* the relay answers for the event with this id: 'ok' after storing it, or
\* 'failed' with a reason; every pending publishEvent of that event settles
ThreadAck(id, outcome) ==
    /\ \E i \in 1..Len(created) :
          created[i].status = "pending" /\ created[i].event.id = id
    /\ store' = IF outcome = "ok"
                THEN store \cup {created[i].event : i \in
                        {j \in 1..Len(created) : created[j].event.id = id}}
                ELSE store
    /\ created' = [i \in 1..Len(created) |->
          IF created[i].status = "pending" /\ created[i].event.id = id
          THEN IF outcome = "ok"
               THEN [created[i] EXCEPT !.status = "resolved", !.value = id]
               ELSE [created[i] EXCEPT !.status = "rejected", !.value = <<outcome>>]
          ELSE created[i]]
    /\ UNCHANGED questions
    /\ UNCHANGED netVars
    /\ UNCHANGED aggVars

\* filter {kinds: [40], '#t': [ZAPSTACK_TAG]}
QuestionFilter(e) ==
    /\ e.kind = 40
    /\ \E k \in 1..Len(e.tags) :
          Len(e.tags[k]) >= 2 /\ e.tags[k][1] = "t" /\ e.tags[k][2] = ZAPSTACK_TAG

\* events.map(...) of listQuestions; JSON.parse throwing rejects the call.
\* The entries are kept as a set: the relay fixes their order.
QuestionsOf(events) ==
    IF \E e \in events : ~JSONParseObject(e.content).ok
    THEN [status |-> "rejected", entries |-> {}]
    ELSE [status |-> "resolved",
          entries |-> {[id |-> e.id, pubkey |-> e.pubkey,
                        title |-> Member(JSONParseObject(e.content).value, KeyName),
                        message |-> Member(JSONParseObject(e.content).value, KeyAbout)]
                       : e \in events}]

\* listQuestions(): relay.list returns the stored events matching the filter
listQuestions ==
    /\ ThreadOps < MaxThreadOps
    /\ questions' = Append(questions, QuestionsOf({e \in store : QuestionFilter(e)}))
    /\ UNCHANGED <<store, created>>
    /\ UNCHANGED netVars
    /\ UNCHANGED aggVars

ThreadNext ==
    \/ \E d \in Drafts, questionId \in QuestionIds :
          createOrUpdateQuestion(d.name, d.about, d.picture, questionId)
    \/ \E i \in 1..MaxThreadOps, outcome \in {"ok"} \cup Reasons :
          i <= Len(created) /\ ThreadAck(created[i].event.id, outcome)
    \/ listQuestions

ThreadSpec == Init /\ [][ThreadNext]_vars

\* ---- claims about the question round trip ----
\* a step in which listQuestions returned
ListStep == Len(questions') = Len(questions) + 1

\* C17: once createOrUpdateQuestion without a questionId has resolved with
\* id X, a listQuestions that returns afterwards resolves with an entry of
\* id X whose title is the name and whose message is the about given.
C17_QuestionRoundTrip ==
    [][ListStep =>
          \A i \in 1..Len(created) :
              (created[i].status = "resolved" /\ ~Truthy(created[i].questionId)) =>
                  LET listed == questions'[Len(questions')]
                  IN  /\ listed.status = "resolved"
                      /\ \E q \in listed.entries :
                            /\ q.id = created[i].value
                            /\ q.title = created[i].name
                            /\ q.message = created[i].about]_vars

\* a question whose name and about hold quotes and a backslash was created
\* and then listed next to another question
C17_Witness ==
    \E i \in 1..Len(created), k \in 1..Len(questions) :
        /\ created[i].status = "resolved" /\ ~Truthy(created[i].questionId)
        /\ created[i].name = <<"a", "\"", "\\">>
        /\ questions[k].status = "resolved"
        /\ Cardinality(questions[k].entries) >= 2
        /\ \E q \in questions[k].entries :
              /\ q.id = created[i].value
              /\ q.title = created[i].name
              /\ q.message = <<"\"", "b", "\"">>
====
